---------------------------- MODULE Spec2Model ----------------------------
(***************************************************************************)
(* A model of sff (semantic file finder), src/src/main.rs and              *)
(* src/src/cli.rs: file discovery and word chunking, batched embedding,    *)
(* cosine scoring in IEEE-754 binary32, ranking, and result selection.     *)
(***************************************************************************)
EXTENDS Integers, Sequences, FiniteSets, Bags, TLC

(***************************************************************************)
(* Program constants.                                                      *)
(***************************************************************************)
CHUNK_EMBEDDING_BATCH_SIZE == 128
WORD_CHUNK_SIZE == 20
MAX_CHUNK_DISPLAY_LEN == 100

(***************************************************************************)
(* f32: IEEE-754 binary32 values and the operations cosine_similarity      *)
(* performs on them.  A finite value is (-1)^s * m * 2^e with m < 2^24;    *)
(* it is kept canonical: m = 0 and e = 0 for zero, 2^23 <= m for a normal  *)
(* number, e = -149 for a subnormal one.  Arithmetic rounds to nearest,    *)
(* ties to even.  Intermediate integers wider than 31 bits are pairs       *)
(* <<hi, lo>> standing for hi * 2^24 + lo.                                 *)
(***************************************************************************)
B12 == 4096
B23 == 8388608
B24 == 16777216
EMin == -149
EMax == 104

NaN == [k |-> "nan", s |-> 0, m |-> 0, e |-> 0]
Inf(sg) == [k |-> "inf", s |-> sg, m |-> 0, e |-> 0]
Zero(sg) == [k |-> "fin", s |-> sg, m |-> 0, e |-> 0]
Fin(sg, mm, ee) == [k |-> "fin", s |-> sg, m |-> mm, e |-> ee]

IsNaN(x) == x.k = "nan"
IsZero(x) == x.k = "fin" /\ x.m = 0
SignXor(a, b) == (a + b) % 2

Pow2(n) == 2 ^ n
Max(a, b) == IF a >= b THEN a ELSE b
Min(a, b) == IF a <= b THEN a ELSE b

BitLen(n) == IF n = 0 THEN 0 ELSE CHOOSE j \in 1..30 : Pow2(j - 1) <= n /\ n < Pow2(j)

WBitLen(w) == IF w[1] > 0 THEN 24 + BitLen(w[1]) ELSE BitLen(w[2])
WLe(x, y) == x[1] < y[1] \/ (x[1] = y[1] /\ x[2] <= y[2])
WAdd(x, y) == <<x[1] + y[1] + ((x[2] + y[2]) \div B24), (x[2] + y[2]) % B24>>
WSub(x, y) ==
    IF x[2] >= y[2] THEN <<x[1] - y[1], x[2] - y[2]>>
    ELSE <<x[1] - y[1] - 1, x[2] + B24 - y[2]>>

\* a * b for a < 2^26 and b < 2^24.
WMul(a, b) ==
    LET a1 == a \div B12
        a0 == a % B12
        b1 == b \div B12
        b0 == b % B12
        mid == a1 * b0 + a0 * b1
        losum == (mid % B12) * B12 + a0 * b0
    IN  <<a1 * b1 + (mid \div B12) + (losum \div B24), losum % B24>>

\* w shifted right by sh >= 1 bits: the quotient, how the remainder compares
\* with half a unit (-1 below, 0 equal, 1 above), and whether it is zero.
WShr(w, sh) ==
    IF sh <= 24 THEN
        LET r == w[2] % Pow2(sh)
            h == Pow2(sh - 1)
        IN  [q |-> w[1] * Pow2(24 - sh) + (w[2] \div Pow2(sh)),
             c |-> IF r > h THEN 1 ELSE IF r = h THEN 0 ELSE -1,
             z |-> r = 0]
    ELSE IF sh - 24 > 30 THEN
        [q |-> 0, c |-> -1, z |-> w[1] = 0 /\ w[2] = 0]
    ELSE
        LET t == sh - 24
            rh == w[1] % Pow2(t)
            h == Pow2(t - 1)
        IN  [q |-> w[1] \div Pow2(t),
             c |-> IF rh > h \/ (rh = h /\ w[2] > 0) THEN 1
                   ELSE IF rh = h THEN 0 ELSE -1,
             z |-> rh = 0 /\ w[2] = 0]

\* The binary32 nearest to (-1)^sg * (w + sticky) * 2^ee, where sticky
\* stands for a non-zero amount below one unit of w.
Round(sg, w, ee, sticky) ==
    LET len == WBitLen(w)
        sh == Max(len - 24, EMin - ee)
    IN  IF len = 0 THEN Zero(sg)
        ELSE IF sh <= 0 THEN
            IF ee + sh > EMax THEN Inf(sg) ELSE Fin(sg, w[2] * Pow2(-sh), ee + sh)
        ELSE
            LET d == WShr(w, sh)
                up == d.c = 1 \/ (d.c = 0 /\ (sticky \/ d.q % 2 = 1))
                m1 == d.q + (IF up THEN 1 ELSE 0)
                m2 == IF m1 = B24 THEN B23 ELSE m1
                e2 == IF m1 = B24 THEN ee + sh + 1 ELSE ee + sh
            IN  IF m2 = 0 THEN Zero(sg)
                ELSE IF e2 > EMax THEN Inf(sg)
                ELSE Fin(sg, m2, e2)

FromInt(n) == IF n >= 0 THEN Round(0, <<0, n>>, 0, FALSE) ELSE Round(1, <<0, -n>>, 0, FALSE)

FMul(x, y) ==
    IF IsNaN(x) \/ IsNaN(y) THEN NaN
    ELSE IF x.k = "inf" \/ y.k = "inf" THEN
        IF IsZero(x) \/ IsZero(y) THEN NaN ELSE Inf(SignXor(x.s, y.s))
    ELSE IF x.m = 0 \/ y.m = 0 THEN Zero(SignXor(x.s, y.s))
    ELSE Round(SignXor(x.s, y.s), WMul(x.m, y.m), x.e + y.e, FALSE)

FAdd(x, y) ==
    IF IsNaN(x) \/ IsNaN(y) THEN NaN
    ELSE IF x.k = "inf" THEN (IF y.k = "inf" /\ y.s # x.s THEN NaN ELSE x)
    ELSE IF y.k = "inf" THEN y
    ELSE IF x.m = 0 /\ y.m = 0 THEN Zero(IF x.s = 1 /\ y.s = 1 THEN 1 ELSE 0)
    ELSE IF x.m = 0 THEN y
    ELSE IF y.m = 0 THEN x
    ELSE
        LET big == IF x.e >= y.e THEN x ELSE y
            sml == IF x.e >= y.e THEN y ELSE x
            d == big.e - sml.e
        IN  IF d > 25 THEN big
            ELSE
                LET a == WMul(Pow2(d), big.m)
                    b == <<0, sml.m>>
                IN  IF big.s = sml.s THEN Round(big.s, WAdd(a, b), sml.e, FALSE)
                    ELSE IF a = b THEN Zero(0)
                    ELSE IF WLe(b, a) THEN Round(big.s, WSub(a, b), sml.e, FALSE)
                    ELSE Round(sml.s, WSub(b, a), sml.e, FALSE)

\* The largest r with r * r <= w: the bits hi down to lo of r are decided
\* one by one, the higher half first.  (The running value travels in a
\* tuple and is read first, so that each half is computed before the next
\* one starts.)
RECURSIVE ISqrt(_, _, _, _)
ISqrt(w, r, hi, lo) ==
    IF r[1] < 0 THEN r[1]
    ELSE IF hi = lo THEN
        LET c == r[1] + Pow2(hi)
        IN  IF WLe(WMul(c, c), w) THEN c ELSE r[1]
    ELSE
        LET mid == (hi + lo + 1) \div 2
        IN  ISqrt(w, <<ISqrt(w, r, hi, mid)>>, mid - 1, lo)

\* The largest q with q * dv <= w, its bits hi down to lo decided likewise.
RECURSIVE IDiv(_, _, _, _, _)
IDiv(w, dv, q, hi, lo) ==
    IF q[1] < 0 THEN q[1]
    ELSE IF hi = lo THEN
        LET c == q[1] + Pow2(hi)
        IN  IF WLe(WMul(c, dv), w) THEN c ELSE q[1]
    ELSE
        LET mid == (hi + lo + 1) \div 2
        IN  IDiv(w, dv, <<IDiv(w, dv, q, hi, mid)>>, mid - 1, lo)

\* m * 2^e with m scaled up to 24 bits (a subnormal made normal).
Norm24(x) ==
    LET up == 24 - BitLen(x.m)
    IN  [m |-> x.m * Pow2(up), e |-> x.e - up]

FSqrt(x) ==
    IF IsNaN(x) THEN NaN
    ELSE IF IsZero(x) THEN x
    ELSE IF x.s = 1 THEN NaN
    ELSE IF x.k = "inf" THEN x
    ELSE
        LET n == Norm24(x)
            even == n.e % 2 = 0
            w == IF even THEN <<n.m, 0>> ELSE <<n.m \div 2, (n.m % 2) * B23>>
            ee == IF even THEN (n.e - 24) \div 2 ELSE (n.e - 23) \div 2
            r == ISqrt(w, <<0>>, 23, 0)
            rem == WSub(w, WMul(r, r))
            up == ~WLe(rem, <<0, r>>)
        IN  Round(0, WAdd(<<0, r>>, <<0, IF up THEN 1 ELSE 0>>), ee, FALSE)

FDiv(x, y) ==
    IF IsNaN(x) \/ IsNaN(y) THEN NaN
    ELSE IF x.k = "inf" THEN (IF y.k = "inf" THEN NaN ELSE Inf(SignXor(x.s, y.s)))
    ELSE IF y.k = "inf" THEN Zero(SignXor(x.s, y.s))
    ELSE IF y.m = 0 THEN (IF x.m = 0 THEN NaN ELSE Inf(SignXor(x.s, y.s)))
    ELSE IF x.m = 0 THEN Zero(SignXor(x.s, y.s))
    ELSE
        LET a == Norm24(x)
            b == Norm24(y)
            w == <<a.m * 2, 0>>
            q == IDiv(w, b.m, <<0>>, 25, 0)
            exact == WMul(q, b.m) = w
        IN  Round(SignXor(x.s, y.s), <<q \div B24, q % B24>>, a.e - b.e - 25, ~exact)

\* The comparisons of f32: nothing compares with NaN, and -0.0 = 0.0.
FEq(x, y) ==
    /\ ~IsNaN(x) /\ ~IsNaN(y)
    /\ \/ x = y
       \/ IsZero(x) /\ IsZero(y)

\* |x| < |y| for two finite or infinite values.
MagLt(x, y) ==
    IF x.k = "inf" THEN FALSE
    ELSE IF y.k = "inf" THEN TRUE
    ELSE IF x.m = 0 THEN y.m # 0
    ELSE IF y.m = 0 THEN FALSE
    ELSE LET lx == BitLen(x.m) + x.e
             ly == BitLen(y.m) + y.e
         IN  lx < ly \/ (lx = ly /\ x.m < y.m)

FLt(x, y) ==
    /\ ~IsNaN(x) /\ ~IsNaN(y)
    /\ ~FEq(x, y)
    /\ IF x.s # y.s THEN x.s = 1
       ELSE IF x.s = 0 THEN MagLt(x, y) ELSE MagLt(y, x)

FGt(x, y) == FLt(y, x)
FGe(x, y) == FGt(x, y) \/ FEq(x, y)

(***************************************************************************)
(* cosine_similarity.  ndarray's dot of two f32 vectors panics when their  *)
(* lengths differ; on vectors shorter than 8 it sums the products left to  *)
(* right from 0.0, over the common length.                                 *)
(***************************************************************************)
\* Mutant of DotPanics: the lengths are not compared, and the dot product
\* runs over the common length.
DotNeverPanics(a, b) == FALSE

DotPanics(a, b) == Len(a) # Len(b)

RECURSIVE DotFrom(_, _, _, _)
DotFrom(a, b, i, sum) ==
    IF i > Min(Len(a), Len(b)) \/ sum[1].k = "none" THEN sum[1]
    ELSE DotFrom(a, b, i + 1, <<FAdd(sum[1], FMul(a[i], b[i]))>>)

Dot(a, b) == DotFrom(a, b, 1, <<Zero(0)>>)

cosine_similarity(a, b) ==
    LET dot_product == Dot(a, b)
        norm_a == FSqrt(Dot(a, a))
        norm_b == FSqrt(Dot(b, b))
    IN  IF FEq(norm_a, Zero(0)) \/ FEq(norm_b, Zero(0)) THEN Zero(0)
        ELSE FDiv(dot_product, FMul(norm_a, norm_b))

(***************************************************************************)
(* Text.  A string is a sequence of one-character strings.                 *)
(***************************************************************************)
Whitespace == {" ", "\n", "\t"}

\* The concatenation of the sequences ss[lo], ..., ss[hi].
RECURSIVE FlattenRange(_, _, _)
FlattenRange(ss, lo, hi) ==
    IF lo > hi THEN <<>>
    ELSE IF lo = hi THEN ss[lo]
    ELSE LET mid == (lo + hi) \div 2
         IN  FlattenRange(ss, lo, mid) \o FlattenRange(ss, mid + 1, hi)

Flatten(ss) == FlattenRange(ss, 1, Len(ss))

\* str::split_whitespace: the maximal runs of non-whitespace characters,
\* in the order of their first characters.
WordStarts(content) ==
    {i \in 1..Len(content) :
        content[i] \notin Whitespace /\ (i = 1 \/ content[i - 1] \in Whitespace)}

WordEnds(content) ==
    {i \in 1..Len(content) :
        content[i] \notin Whitespace /\ (i = Len(content) \/ content[i + 1] \in Whitespace)}

Nth(S, k) == CHOOSE i \in S : Cardinality({t \in S : t < i}) = k - 1

split_whitespace(content) ==
    LET starts == WordStarts(content)
        ends == WordEnds(content)
    IN  [k \in 1..Cardinality(starts) |-> SubSeq(content, Nth(starts, k), Nth(ends, k))]

\* [&str]::join(" ")
join(words) == Flatten([i \in 1..Len(words) |-> IF i = 1 THEN words[1] ELSE <<" ">> \o words[i]])

\* Mutant of SliceChunks: the remainder is dropped (chunks_exact).
SliceChunksExact(words, size) ==
    [j \in 1..(Len(words) \div size) |-> SubSeq(words, (j - 1) * size + 1, j * size)]

\* slice::chunks(size): consecutive slices of size elements, the last
\* one holding the remainder.
SliceChunks(words, size) ==
    [j \in 1..((Len(words) + size - 1) \div size) |->
        SubSeq(words, (j - 1) * size + 1, Min(j * size, Len(words)))]

\* The flat_map closure: the TextChunks of one file, in order.
ChunkFile(content, path) ==
    LET words == split_whitespace(content)
        slices == SliceChunks(words, WORD_CHUNK_SIZE)
    IN  [j \in 1..Len(slices) |-> [path |-> path, text |-> join(slices[j])]]

(***************************************************************************)
(* The embedding provider (model2vec-rs StaticModel, loaded with           *)
(* normalize = true) is an external collaborator.  It is stood for by a    *)
(* deterministic, index-aligned encoder with two dimensions: each letter   *)
(* of a text adds its vector, and the sum is divided by its norm (at       *)
(* least 1e-12), so a text without letters encodes to the zero vector.     *)
(***************************************************************************)
Count(text, letters) == Cardinality({i \in 1..Len(text) : text[i] \in letters})

RawEmbedding(text) ==
    <<FromInt(Count(text, {"a", "c"})), FromInt(Count(text, {"b", "c"}))>>

NormFloor == Fin(0, 9223372, -63)

Normalize(v) ==
    LET n == FSqrt(Dot(v, v))
        d == IF FLt(n, NormFloor) THEN NormFloor ELSE n
    IN  [i \in 1..Len(v) |-> FDiv(v[i], d)]

EncodeText(text) == Normalize(RawEmbedding(text))

\* encode(texts): one embedding per text, in the order of the texts.
Encode(texts) == [i \in 1..Len(texts) |-> EncodeText(texts[i])]

(***************************************************************************)
(* The directory.  Every entry the walk may meet is one of Entries; a run  *)
(* searches a directory holding some of them.                              *)
(***************************************************************************)
Rep(ch, n) == [i \in 1..n |-> ch]

\* 24 words "aaaaa" and one word "b", single spaces between them.
ContentA == Flatten([i \in 1..25 |-> IF i = 25 THEN <<"b">> ELSE Rep("a", 5) \o <<" ">>])

Entries == <<
    [path |-> "a.txt", depth |-> 1, is_file |-> TRUE, ext |-> "txt", readable |-> TRUE,
     content |-> ContentA],
    [path |-> "b.md", depth |-> 1, is_file |-> TRUE, ext |-> "md", readable |-> TRUE,
     content |-> <<" ", "c", "\n", " ", "c", "\t", "c", "\n">>],
    [path |-> "c.org", depth |-> 1, is_file |-> TRUE, ext |-> "org", readable |-> TRUE,
     content |-> <<"a", " ", "b">>],
    [path |-> "d.TXT", depth |-> 1, is_file |-> TRUE, ext |-> "TXT", readable |-> TRUE,
     content |-> <<"a">>],
    [path |-> "e.txt", depth |-> 1, is_file |-> TRUE, ext |-> "txt", readable |-> TRUE,
     content |-> <<" ", "\n">>],
    [path |-> "f.mdx", depth |-> 1, is_file |-> TRUE, ext |-> "mdx", readable |-> FALSE,
     content |-> <<>>],
    [path |-> "sub/g.txt", depth |-> 2, is_file |-> TRUE, ext |-> "txt", readable |-> TRUE,
     content |-> Rep("a", 5)],
    [path |-> "h.md", depth |-> 1, is_file |-> FALSE, ext |-> "md", readable |-> FALSE,
     content |-> <<>>] >>

EntryIds == 1..Len(Entries)

\* Bounds of the model.
MaxFiles == 2
MaxLimit == 1

\* Args::extension's default value, and Args::limit's.
DefaultExtensions == {"txt", "md", "mdx", "org"}
DefaultLimit == 10

Directories == {d \in SUBSET EntryIds : Cardinality(d) <= MaxFiles}
Limits == (0..MaxLimit) \cup {DefaultLimit}
ExtensionSets == {DefaultExtensions, {"txt"}}
Queries == {<< <<"a">> >>, << <<"c">>, <<"c">> >>}

ArgsSet ==
    [query : Queries, limit : Limits, recursive : BOOLEAN, extension : ExtensionSets]

VARIABLES
    args,             \* the parsed command line
    dir,              \* the entries under args.path
    batch_size,       \* the chunks per encode call
    pc,               \* the stage main is at
    visited,          \* the entries par_bridge has handed to the closures
    read_attempts,    \* the entries fs::read_to_string was called on
    chunks,           \* collected_chunks
    file_count,       \* num_unique_files
    query_embedding,
    parts,            \* the embeddings of the batches encoded so far
    reordered,        \* history: a batch finished before an earlier one
    chunk_embeddings,
    results,
    selected,         \* the results the printing loop takes
    out,              \* what was printed to stdout
    outcome,          \* "running", "ok", "err" (main returned Err), "panic"
    fault,            \* history: what went wrong in the provider
    stages,           \* history: the stages entered
    fn_in, fn_out     \* the argument and result of a function run on its own

vars == <<args, dir, batch_size, pc, visited, read_attempts, chunks, file_count,
          query_embedding, parts, reordered, chunk_embeddings, results, selected,
          out, outcome, fault, stages, fn_in, fn_out>>

\* WalkDir::new(path).max_depth(if recursive { usize::MAX } else { 1 })
Walked(d, a) == {e \in d : a.recursive \/ Entries[e].depth <= 1}

\* The match on the extension.
ExtensionAccepted(ext, a) == ext \in {"txt", "md", "mdx"}

\* The files fs::read_to_string is called on.
IsCandidate(e, a) == Entries[e].is_file /\ ExtensionAccepted(Entries[e].ext, a)

\* What one entry adds to the collection.
\* What the flat_map closure yields for the content of each entry.
FileChunks == [e \in EntryIds |-> ChunkFile(Entries[e].content, Entries[e].path)]

ChunksOfEntry(e, a) ==
    IF IsCandidate(e, a) /\ Entries[e].readable THEN FileChunks[e] ELSE <<>>

\* Mutant of Collect: a closure that finishes overwrites the collection.
CollectLast(acc, new) == IF new = <<>> THEN acc ELSE new

\* collect(): the chunks of a file are appended as its closure finishes.
Collect(acc, new) == acc \o new

\* Mutant of num_unique_files: the chunks are counted, not their files.
CountChunks(cs) == Len(cs)

num_unique_files(cs) == Cardinality({cs[i].path : i \in 1..Len(cs)})

\* Mutant of NoChunks: the early exit is never taken.
NeverNoChunks(cs) == FALSE

NoChunks(cs) == Len(cs) = 0

query_string(a) == join(a.query)

\* par_chunks(batch_size): the index range of batch b among n chunks.
NumBatches(n, size) == (n + size - 1) \div size
BatchRange(b, n, size) == ((b - 1) * size + 1)..Min(b * size, n)
BatchTexts(cs, b, size) ==
    [i \in 1..Cardinality(BatchRange(b, Len(cs), size)) |-> cs[(b - 1) * size + i].text]

\* Mutant of PlaceBatch: a batch's embeddings land in the first free place,
\* that is in the order the batches finish.
PlaceBatchOnArrival(ps, b, embs) ==
    LET free == CHOOSE c \in 1..Len(ps) : ps[c] = <<>> /\ \A d \in 1..(c - 1) : ps[d] # <<>>
    IN  [ps EXCEPT ![free] = <<embs>>]

\* The ordered collect of the batches: a batch's embeddings land in the
\* batch's place, whenever the batch finishes.
PlaceBatch(ps, b, embs) == [ps EXCEPT ![b] = <<embs>>]

Assemble(ps) == Flatten([b \in 1..Len(ps) |-> ps[b][1]])

\* is_less of the sort: compare(a, b) = b.score.partial_cmp(a.score)
\* .unwrap_or(Equal) is Less exactly when a.score > b.score.
is_less(a, b) == FGt(a.score, b.score)

\* par_sort_unstable_by on 20 elements or fewer is an insertion sort: each
\* element moves left past the elements it is less than.
InsertSorted(prefix, x) ==
    LET stop == {t \in 1..Len(prefix) : ~is_less(x, prefix[t])}
        k == IF stop = {} THEN 0 ELSE CHOOSE t \in stop : \A u \in stop : u <= t
    IN  SubSeq(prefix, 1, k) \o <<x>> \o SubSeq(prefix, k + 1, Len(prefix))

RECURSIVE SortFrom(_, _, _)
SortFrom(v, i, acc) ==
    IF i > Len(v) \/ Len(acc[1]) < 0 THEN acc[1]
    ELSE SortFrom(v, i + 1, <<InsertSorted(acc[1], v[i])>>)

par_sort_unstable_by(v) == SortFrom(v, 1, << <<>> >>)

\* The similarity map over the chunk embeddings.
Score(cs, embs, q) ==
    [i \in 1..Len(embs) |->
        [score |-> cosine_similarity(q, embs[i]), path |-> cs[i].path, chunk |-> cs[i].text]]

\* Mutant of Take: one result too many.
TakeOneMore(v, n) == SubSeq(v, 1, IF n + 1 <= Len(v) THEN n + 1 ELSE Len(v))

Take(v, n) == SubSeq(v, 1, Min(n, Len(v)))

\* The truncation of a long chunk for display.
Truncate(text) ==
    IF Len(text) > MAX_CHUNK_DISPLAY_LEN
    THEN SubSeq(text, 1, MAX_CHUNK_DISPLAY_LEN) \o <<".", ".", ".">>
    ELSE text

TruncateTaken(v, n) ==
    [i \in 1..Len(v) |-> IF i <= n THEN [v[i] EXCEPT !.chunk = Truncate(v[i].chunk)] ELSE v[i]]

(***************************************************************************)
(* main.                                                                   *)
(***************************************************************************)
FnIdle == fn_in = <<>> /\ fn_out = <<>>

InitWith(argsSet, sizes) ==
    /\ args \in argsSet
    /\ dir \in Directories
    /\ batch_size \in sizes
    /\ pc = "discover"
    /\ visited = {}
    /\ read_attempts = {}
    /\ chunks = <<>>
    /\ file_count = 0
    /\ query_embedding = <<>>
    /\ parts = <<>>
    /\ reordered = FALSE
    /\ chunk_embeddings = <<>>
    /\ results = <<>>
    /\ selected = <<>>
    /\ out = <<>>
    /\ outcome = "running"
    /\ fault = "none"
    /\ stages = <<"extract">>
    /\ FnIdle

\* main from any command line, with the batch size of the program.
Init == InitWith(ArgsSet, {CHUNK_EMBEDDING_BATCH_SIZE})

\* The closures of stage 1 run on one entry of the walk; par_bridge hands
\* the entries over in any order.
Visit(e) ==
    /\ pc = "discover"
    /\ e \in Walked(dir, args) \ visited
    /\ visited' = visited \cup {e}
    /\ read_attempts' = IF IsCandidate(e, args) THEN read_attempts \cup {e} ELSE read_attempts
    /\ chunks' = Collect(chunks, ChunksOfEntry(e, args))
    /\ UNCHANGED <<args, dir, batch_size, pc, file_count, query_embedding, parts, reordered,
                   chunk_embeddings, results, selected, out, outcome, fault, stages,
                   fn_in, fn_out>>

\* The end of stage 1: the file count, and the early exit.
FinishDiscovery ==
    /\ pc = "discover"
    /\ visited = Walked(dir, args)
    /\ file_count' = num_unique_files(chunks)
    /\ IF NoChunks(chunks)
       THEN /\ out' = <<[kind |-> "no_files"]>>
            /\ outcome' = "ok"
            /\ pc' = "done"
            /\ stages' = stages
       ELSE /\ pc' = "load"
            /\ stages' = Append(stages, "load")
            /\ UNCHANGED <<out, outcome>>
    /\ UNCHANGED <<args, dir, batch_size, visited, read_attempts, chunks, query_embedding,
                   parts, reordered, chunk_embeddings, results, selected, fault,
                   fn_in, fn_out>>

\* StaticModel::from_pretrained(..)?
LoadModel ==
    /\ pc = "load"
    /\ \E ok \in BOOLEAN :
        IF ok
        THEN /\ pc' = "query"
             /\ stages' = Append(stages, "query")
             /\ UNCHANGED <<outcome, fault>>
        ELSE /\ pc' = "done"
             /\ outcome' = "err"
             /\ fault' = "load"
             /\ stages' = stages
    /\ UNCHANGED <<args, dir, batch_size, visited, read_attempts, chunks, file_count,
                   query_embedding, parts, reordered, chunk_embeddings, results, selected,
                   out, fn_in, fn_out>>

\* What encode may return for the query: its embedding, nothing, or an
\* embedding of another dimension than the chunks'.
QueryReturns(a) ==
    LET good == Encode(<<query_string(a)>>)
    IN  {good, <<>>, <<Append(good[1], Zero(0))>>}

\* encode(&[query]).into_iter().next().context(..)?
EncodeQuery ==
    /\ pc = "query"
    /\ \E r \in QueryReturns(args) :
        IF r = <<>>
        THEN /\ pc' = "done"
             /\ outcome' = "err"
             /\ fault' = "query"
             /\ UNCHANGED <<query_embedding, parts, stages>>
        ELSE /\ query_embedding' = r[1]
             /\ pc' = "embed"
             /\ parts' = [b \in 1..NumBatches(Len(chunks), batch_size) |-> <<>>]
             /\ stages' = Append(stages, "embed")
             /\ UNCHANGED <<outcome, fault>>
    /\ UNCHANGED <<args, dir, batch_size, visited, read_attempts, chunks, file_count,
                   reordered, chunk_embeddings, results, selected, out, fn_in, fn_out>>

\* The flat_map closure of stage 4 on one batch; the batches run in any
\* order.  A failing encode panics.
EncodeBatch(b) ==
    /\ pc = "embed"
    /\ b \in 1..Len(parts)
    /\ parts[b] = <<>>
    /\ \E ok \in BOOLEAN :
        IF ok
        THEN /\ parts' = PlaceBatch(parts, b, Encode(BatchTexts(chunks, b, batch_size)))
             /\ reordered' = (reordered \/ \E c \in 1..(b - 1) : parts[c] = <<>>)
             /\ UNCHANGED <<pc, outcome, fault>>
        ELSE /\ pc' = "done"
             /\ outcome' = "panic"
             /\ fault' = "batch"
             /\ UNCHANGED <<parts, reordered>>
    /\ UNCHANGED <<args, dir, batch_size, visited, read_attempts, chunks, file_count,
                   query_embedding, chunk_embeddings, results, selected, out, stages,
                   fn_in, fn_out>>

\* collect() of stage 4.
CollectEmbeddings ==
    /\ pc = "embed"
    /\ \A b \in 1..Len(parts) : parts[b] # <<>>
    /\ chunk_embeddings' = Assemble(parts)
    /\ pc' = "rank"
    /\ stages' = Append(stages, "rank")
    /\ UNCHANGED <<args, dir, batch_size, visited, read_attempts, chunks, file_count,
                   query_embedding, parts, reordered, results, selected, out, outcome,
                   fault, fn_in, fn_out>>

\* Stage 5: ndarray's dot panics on vectors of different lengths.
Rank ==
    /\ pc = "rank"
    /\ IF \E i \in 1..Len(chunk_embeddings) : DotPanics(query_embedding, chunk_embeddings[i])
       THEN /\ pc' = "done"
            /\ outcome' = "panic"
            /\ fault' = "dimension"
            /\ UNCHANGED <<results, stages>>
       ELSE /\ results' = par_sort_unstable_by(Score(chunks, chunk_embeddings, query_embedding))
            /\ pc' = "print"
            /\ stages' = Append(stages, "select")
            /\ UNCHANGED <<outcome, fault>>
    /\ UNCHANGED <<args, dir, batch_size, visited, read_attempts, chunks, file_count,
                   query_embedding, parts, reordered, chunk_embeddings, selected, out,
                   fn_in, fn_out>>

\* Stage 6: the summary line, then the table of the first args.limit
\* results (their chunks cut for display, in place), or "No matches
\* found."  The cells of a row are renderings of the fields of the result
\* taken; the rendering itself is not modelled.
PrintResults ==
    /\ pc = "print"
    /\ selected' = Take(results, args.limit)
    /\ results' = TruncateTaken(results, args.limit)
    /\ out' = <<[kind |-> "summary", found |-> Len(results), files |-> file_count,
                 top |-> Min(args.limit, Len(results))],
                IF Len(results) # 0
                THEN [kind |-> "table", rows |-> Len(Take(results, args.limit))]
                ELSE [kind |-> "no_matches"]>>
    /\ outcome' = "ok"
    /\ pc' = "done"
    /\ UNCHANGED <<args, dir, batch_size, visited, read_attempts, chunks, file_count,
                   query_embedding, parts, reordered, chunk_embeddings, fault, stages,
                   fn_in, fn_out>>

Next ==
    \/ \E e \in EntryIds : Visit(e)
    \/ FinishDiscovery
    \/ LoadModel
    \/ EncodeQuery
    \/ \E b \in 1..Len(parts) : EncodeBatch(b)
    \/ CollectEmbeddings
    \/ Rank
    \/ PrintResults

Spec == Init /\ [][Next]_vars

(***************************************************************************)
(* The embedding stage under other batch sizes.  The batch size is the     *)
(* compile-time constant 128; here the stage also runs with sizes 1 and 2, *)
(* so that a run has several batches and they finish in any order.         *)
(***************************************************************************)
BatchSizes == {1, 2, CHUNK_EMBEDDING_BATCH_SIZE}

BatchArgs ==
    [query : {<< <<"a">> >>}, limit : {DefaultLimit}, recursive : BOOLEAN,
     extension : {DefaultExtensions}]

InitBatch == InitWith(BatchArgs, BatchSizes)

SpecBatch == InitBatch /\ [][Next]_vars

(***************************************************************************)
(* The functions on their own: an argument drawn from a bounded set, and   *)
(* one step that applies the function to it.                               *)
(***************************************************************************)
IdleArgs == [query |-> <<>>, limit |-> 0, recursive |-> FALSE, extension |-> {}]

MainIdle ==
    /\ args = IdleArgs
    /\ dir = {}
    /\ batch_size = CHUNK_EMBEDDING_BATCH_SIZE
    /\ pc = "function"
    /\ visited = {}
    /\ read_attempts = {}
    /\ chunks = <<>>
    /\ file_count = 0
    /\ query_embedding = <<>>
    /\ parts = <<>>
    /\ reordered = FALSE
    /\ chunk_embeddings = <<>>
    /\ results = <<>>
    /\ selected = <<>>
    /\ out = <<>>
    /\ outcome = "running"
    /\ fault = "none"
    /\ stages = <<>>

MainVars == <<args, dir, batch_size, pc, visited, read_attempts, chunks, file_count,
              query_embedding, parts, reordered, chunk_embeddings, results, selected,
              out, outcome, fault, stages>>

\* Chunking: a file of n one-letter words, with single spaces, runs of
\* spaces or line breaks between them, and optional blank space around.
MaxWords == 41

Letters == <<"a", "b", "c">>
WordsOf(n) == [i \in 1..n |-> <<Letters[(i % 3) + 1]>>]
Separators == {<<" ">>, <<" ", " ">>, <<"\n", "\t">>}
Pads == {<<>>, <<" ", "\n">>}

MakeContent(words, sep, lead, trail) ==
    lead \o Flatten([i \in 1..Len(words) |-> IF i = 1 THEN words[1] ELSE sep \o words[i]])
         \o trail

InitChunk ==
    /\ MainIdle
    /\ \E n \in 0..MaxWords, sep \in Separators, lead \in Pads, trail \in Pads :
        fn_in = [words |-> WordsOf(n), content |-> MakeContent(WordsOf(n), sep, lead, trail),
                 path |-> "a.txt"]
    /\ fn_out = <<>>

ChunkStep ==
    /\ pc = "function"
    /\ fn_out = <<>>
    /\ fn_out' = <<ChunkFile(fn_in.content, fn_in.path)>>
    /\ UNCHANGED <<MainVars, fn_in>>

SpecChunk == InitChunk /\ [][ChunkStep]_vars

\* Cosine similarity: two vectors of small integers, of one large
\* component, or of provider output (normalized vectors).
MaxComp == 2

Huge == Fin(0, B23, 41)
IntVectors == {<<FromInt(x), FromInt(y)>> : x, y \in (-MaxComp)..MaxComp}
Vectors == IntVectors \cup {Normalize(v) : v \in IntVectors} \cup {<<Huge, Zero(0)>>}

InitCos ==
    /\ MainIdle
    /\ fn_in \in [a : Vectors, b : Vectors]
    /\ fn_out = <<>>

CosStep ==
    /\ pc = "function"
    /\ fn_out = <<>>
    /\ fn_out' = <<cosine_similarity(fn_in.a, fn_in.b)>>
    /\ UNCHANGED <<MainVars, fn_in>>

SpecCos == InitCos /\ [][CosStep]_vars

\* Ranking: up to MaxRank scored chunks with any scores, NaN included.
MaxRank == 3

Scores == {FromInt(0), FromInt(1), FromInt(2), FromInt(-1), NaN}
RankPaths == <<"p1", "p2", "p3", "p4", "p5">>
ScoredSeqs ==
    UNION {[1..n -> Scores] : n \in 0..MaxRank}

InitRank ==
    /\ MainIdle
    /\ \E sc \in ScoredSeqs :
        fn_in = [i \in 1..Len(sc) |-> [score |-> sc[i], path |-> RankPaths[i], chunk |-> <<"a">>]]
    /\ fn_out = <<>>

RankStep ==
    /\ pc = "function"
    /\ fn_out = <<>>
    /\ fn_out' = <<par_sort_unstable_by(fn_in)>>
    /\ UNCHANGED <<MainVars, fn_in>>

SpecRank == InitRank /\ [][RankStep]_vars

(***************************************************************************)
(* Properties.                                                             *)
(***************************************************************************)
Embedded == pc \in {"rank", "print"} \/ (pc = "done" /\ chunk_embeddings # <<>>)

\* C1: whatever the batch size and the order in which the batches finish,
\* the embedding stage returns one embedding per chunk, and the embedding
\* at index i is the provider's encoding of the text of chunk i.
C1_EmbeddingsAligned ==
    Embedded =>
        /\ Len(chunk_embeddings) = Len(chunks)
        /\ \A i \in 1..Len(chunks) : chunk_embeddings[i] = EncodeText(chunks[i].text)

\* Three chunks in batches of 2, the second batch finished first, and the
\* embeddings of the two batches differ.
C1_Witness ==
    /\ Embedded
    /\ reordered
    /\ batch_size = 2
    /\ Len(chunks) = 3
    /\ chunk_embeddings[1] # chunk_embeddings[3]

WordCount(text) == Len(split_whitespace(text))
CeilDiv(n, d) == (n + d - 1) \div d

\* C2: a file of n words yields ceil(n / W) chunks (none for n = 0), every
\* chunk but the last holds W words, the last holds 1 to W words, and the
\* words of the chunks in order are the words of the file.
C2_Chunking ==
    fn_out # <<>> =>
        LET cs == fn_out[1]
            n == Len(fn_in.words)
        IN  /\ split_whitespace(fn_in.content) = fn_in.words
            /\ Len(cs) = CeilDiv(n, WORD_CHUNK_SIZE)
            /\ \A j \in 1..(Len(cs) - 1) : WordCount(cs[j].text) = WORD_CHUNK_SIZE
            /\ Len(cs) > 0 =>
                /\ WordCount(cs[Len(cs)].text) >= 1
                /\ WordCount(cs[Len(cs)].text) <= WORD_CHUNK_SIZE
            /\ Flatten([j \in 1..Len(cs) |-> split_whitespace(cs[j].text)]) = fn_in.words
            /\ \A j \in 1..Len(cs) : cs[j].path = fn_in.path

\* 41 words, separated by more than single spaces, in three chunks of 20,
\* 20 and 1 words.
C2_Witness ==
    /\ fn_out # <<>>
    /\ Len(fn_in.words) = 2 * WORD_CHUNK_SIZE + 1
    /\ Len(fn_in.content) > 2 * Len(fn_in.words)
    /\ Len(fn_out[1]) = 3

\* C3: the ranked sequence is non-increasing in score, position by
\* position, also when some of the scores are NaN.
C3_NonIncreasing ==
    fn_out # <<>> =>
        \A i \in 1..(Len(fn_out[1]) - 1) : FGe(fn_out[1][i].score, fn_out[1][i + 1].score)

\* C4: a regular file of the walk is read and chunked exactly when its
\* extension is a member of the configured extension set (by default txt,
\* md, mdx and org), and no other entry contributes a chunk.
C4_ExtensionFilter ==
    pc # "discover" =>
        \A e \in Walked(dir, args) :
            /\ Entries[e].is_file =>
                (e \in read_attempts <=> Entries[e].ext \in args.extension)
            /\ ~(Entries[e].is_file /\ Entries[e].ext \in args.extension) =>
                \A i \in 1..Len(chunks) : chunks[i].path # Entries[e].path

\* The entries of the walk in one fixed order, and what a run that meets
\* them in that order collects and ranks.
SortedIds(S) == [k \in 1..Cardinality(S) |-> Nth(S, k)]

SeqBag(v) == [x \in {v[i] : i \in 1..Len(v)} |-> Cardinality({i \in 1..Len(v) : v[i] = x})]

FixedOrderChunks ==
    LET ids == SortedIds(Walked(dir, args))
    IN  Flatten([k \in 1..Len(ids) |-> ChunksOfEntry(ids[k], args)])

FixedOrderRanked ==
    LET cs == FixedOrderChunks
    IN  par_sort_unstable_by(
            Score(cs, Encode([i \in 1..Len(cs) |-> cs[i].text]), EncodeText(query_string(args))))

Printed == pc = "done" /\ outcome = "ok" /\ chunks # <<>>

StageOrder == <<"extract", "load", "query", "embed", "rank", "select">>

\* C6: with no chunk extracted the run ends successfully with the "no
\* files" message and enters no later stage (no model load, no encode call,
\* no ranking, no result output); otherwise the stages are entered in the
\* order extraction, model load, embedding, ranking, selection.
C6_EarlyExit ==
    /\ (pc # "discover" /\ chunks = <<>>) =>
        /\ pc = "done"
        /\ outcome = "ok"
        /\ out = <<[kind |-> "no_files"]>>
        /\ stages = <<"extract">>
        /\ fault = "none"
        /\ query_embedding = <<>> /\ parts = <<>> /\ chunk_embeddings = <<>>
        /\ results = <<>> /\ selected = <<>>
    /\ Len(stages) <= Len(StageOrder) /\ stages = SubSeq(StageOrder, 1, Len(stages))
    /\ Printed => stages = StageOrder

\* A directory whose only file of an accepted extension was read and held
\* no word (or could not be read): the run is over after extraction.
C6_Witness ==
    /\ pc = "done"
    /\ chunks = <<>>
    /\ read_attempts # {}
    /\ out = <<[kind |-> "no_files"]>>

\* C7: the selection is the first min(L, len) ranked results, in rank order,
\* with their scores and paths; all of them for L >= len, none for L = 0,
\* and the run completes in either case.
C7_Selection ==
    Printed =>
        /\ Len(selected) = Min(args.limit, Len(results))
        /\ \A i \in 1..Len(selected) :
            /\ selected[i].score = results[i].score
            /\ selected[i].path = results[i].path
        /\ \A i \in 1..(Len(results) - 1) : ~is_less(results[i + 1], results[i])
        /\ args.limit >= Len(results) => Len(selected) = Len(results)
        /\ args.limit = 0 => selected = <<>>
        /\ out[2] = [kind |-> "table", rows |-> Len(selected)]

\* Three ranked results of which the limit 1 selects the first.
C7_Witness ==
    /\ Printed
    /\ args.limit = 1
    /\ Len(results) = 3
    /\ Len(selected) = 1
    /\ FGt(results[1].score, results[3].score)

DimensionMismatch ==
    /\ query_embedding # <<>>
    /\ \E i \in 1..Len(chunk_embeddings) : Len(chunk_embeddings[i]) # Len(query_embedding)

\* C8: when the model fails to load, an encode call fails (the query
\* encode returning nothing included) or the query and a chunk embedding
\* differ in dimension, the run ends in failure and nothing was printed.
C8_FatalNoOutput ==
    /\ fault # "none" => pc = "done" /\ outcome \in {"err", "panic"}
    /\ outcome \in {"err", "panic"} => out = <<>>
    /\ (pc \in {"print", "done"} /\ DimensionMismatch) => outcome = "panic" /\ out = <<>>

\* A run that panicked in the similarity stage on a dimension mismatch.
C8_Witness ==
    /\ pc = "done"
    /\ fault = "dimension"
    /\ DimensionMismatch
    /\ Len(chunk_embeddings) = Len(chunks)

F32One == FromInt(1)

NonZeroVector(v) == \E i \in 1..Len(v) : ~IsZero(v[i])

\* C9: cosine_similarity is 0.0 when a norm is zero, dot / (norm * norm)
\* otherwise, 0.0 for orthogonal unit vectors, 1.0 for identical non-zero
\* vectors, and never NaN.
C9_Cosine ==
    fn_out # <<>> =>
        LET a == fn_in.a
            b == fn_in.b
            r == fn_out[1]
            na == FSqrt(Dot(a, a))
            nb == FSqrt(Dot(b, b))
        IN  /\ (FEq(na, Zero(0)) \/ FEq(nb, Zero(0))) => r = Zero(0)
            /\ ~(FEq(na, Zero(0)) \/ FEq(nb, Zero(0))) => r = FDiv(Dot(a, b), FMul(na, nb))
            /\ (FEq(na, F32One) /\ FEq(nb, F32One) /\ IsZero(Dot(a, b))) => FEq(r, Zero(0))
            /\ (a = b /\ NonZeroVector(a)) => FEq(r, F32One)
            /\ ~IsNaN(r)

\* C10: the file count is the number of files of which some chunk carries
\* the path: the files that were read and held a word, each counted once.
C10_FileCount ==
    pc # "discover" =>
        /\ file_count =
            Cardinality({e \in dir : \E i \in 1..Len(chunks) : chunks[i].path = Entries[e].path})
        /\ file_count =
            Cardinality({e \in Walked(dir, args) :
                /\ IsCandidate(e, args)
                /\ Entries[e].readable
                /\ split_whitespace(Entries[e].content) # <<>>})

\* A file of two chunks counted once, beside a file that was read and held
\* no word.
C10_Witness ==
    /\ pc = "done"
    /\ file_count = 1
    /\ Len(chunks) = 2
    /\ Cardinality(read_attempts) = 2

====
